---- MODULE Spec2Model ----
(***************************************************************************)
(* Model of python/runtime/local/submitter.py: the local dispatcher of     *)
(* SQLFlow.  Five entry points (train, pred, evaluate, explain,            *)
(* show_train) pick a backend routine from an estimator name or from the   *)
(* type tag of a model loaded from the registry, and forward arguments.    *)
(*                                                                         *)
(* Python strings are sequences of one-character strings, so that lower(), *)
(* startswith(), replace() and split() are computed as Python computes     *)
(* them.  A dict is the sequence of its (key, value) pairs in insertion    *)
(* order, with distinct keys.  The registry, the backend routines and the  *)
(* result writer are collaborators outside the file: what they return (or  *)
(* raise) is chosen by the environment at each call.                       *)
(***************************************************************************)
EXTENDS Naturals, Sequences, FiniteSets

VARIABLES pc, call, env, trace, outcome, stdout, bookmark

vars == <<pc, call, env, trace, outcome, stdout, bookmark>>

(* ------------------------------ bounds -------------------------------- *)

\* pieces concatenated to build an estimator name
MaxEstimatorPieces == 2
\* pieces concatenated to build a model_params key
MaxKeyPieces == 3
\* pieces concatenated to build a validation.metrics value
MaxMetricPieces == 3
\* entries of a model_params dict
MaxParams == 2
\* distinct values an opaque input field takes
NumVariants == 2

(* ------------------------- string literals ---------------------------- *)

S_xgboost == <<"x", "g", "b", "o", "o", "s", "t">>
S_XGBoost == <<"X", "G", "B", "o", "o", "s", "t">>
S_xgBoost1 == <<"x", "g", "B", "o", "o", "s", "t", "1">>
S_linear == <<"l", "i", "n", "e", "a", "r">>
S_my_xgboost == <<"m", "y", "_", "x", "g", "b", "o", "o", "s", "t">>
S_summary_dot == <<"s", "u", "m", "m", "a", "r", "y", ".">>
S_plot_type == <<"p", "l", "o", "t", "_", "t", "y", "p", "e">>
S_other == <<"o", "t", "h", "e", "r">>
S_bar == <<"b", "a", "r">>
S_x == <<"x">>
S_validation_metrics ==
    <<"v", "a", "l", "i", "d", "a", "t", "i", "o", "n", ".",
      "m", "e", "t", "r", "i", "c", "s">>
S_Accuracy == <<"A", "c", "c", "u", "r", "a", "c", "y">>
S_F1 == <<"F", "1">>
S_comma == <<",">>
S_Model == <<"M", "o", "d", "e", "l">>
S_Train_Statement ==
    <<"T", "r", "a", "i", "n", " ", "S", "t", "a", "t", "e", "m", "e", "n", "t">>
S_not_implemented ==
    <<"n", "o", "t", " ", "i", "m", "p", "l", "e", "m", "e", "n", "t", "e", "d", " ",
      "m", "o", "d", "e", "l", " ", "t", "y", "p", "e", ":", " ">>
S_cannot_find ==
    <<"c", "a", "n", "n", "o", "t", " ", "f", "i", "n", "d", " ", "t", "h", "e", " ",
      "t", "r", "a", "i", "n", " ", "S", "Q", "L", " ",
      "s", "t", "a", "t", "e", "m", "e", "n", "t">>
S_select_stmt == <<"S", "E", "L", "E", "C", "T", " ", "*", " ", "F", "R", "O", "M", " ", "t">>

(* ----------------------- Python str operations ------------------------ *)

UpperLetters ==
    <<"A", "B", "C", "D", "E", "F", "G", "H", "I", "J", "K", "L", "M",
      "N", "O", "P", "Q", "R", "S", "T", "U", "V", "W", "X", "Y", "Z">>
LowerLetters ==
    <<"a", "b", "c", "d", "e", "f", "g", "h", "i", "j", "k", "l", "m",
      "n", "o", "p", "q", "r", "s", "t", "u", "v", "w", "x", "y", "z">>

\* str.lower() on one character
LowerChar(c) ==
    IF \E i \in 1..Len(UpperLetters) : UpperLetters[i] = c
    THEN LowerLetters[CHOOSE i \in 1..Len(UpperLetters) : UpperLetters[i] = c]
    ELSE c

\* str.lower()
Lower(s) == [i \in 1..Len(s) |-> LowerChar(s[i])]

\* str.startswith(prefix)
StartsWith(s, prefix) ==
    /\ Len(s) >= Len(prefix)
    /\ \A i \in 1..Len(prefix) : s[i] = prefix[i]

\* str.replace(old, ""): every non-overlapping occurrence of old, found left
\* to right in one pass, is removed (old is not empty)
RECURSIVE Replace(_, _)
Replace(s, old) ==
    IF Len(s) < Len(old) THEN s
    ELSE IF StartsWith(s, old)
         THEN Replace(SubSeq(s, Len(old) + 1, Len(s)), old)
         ELSE <<Head(s)>> \o Replace(Tail(s), old)

\* str.split(","): the list of the pieces between the commas, empty pieces kept
RECURSIVE Split(_)
Split(s) ==
    IF \A i \in 1..Len(s) : s[i] # ","
    THEN <<s>>
    ELSE LET i == CHOOSE j \in 1..Len(s) :
                      /\ s[j] = ","
                      /\ \A k \in 1..(j - 1) : s[k] # ","
         IN <<SubSeq(s, 1, i - 1)>> \o Split(SubSeq(s, i + 1, Len(s)))

(* ------------------------------ dicts --------------------------------- *)

Keys(d) == {d[i][1] : i \in 1..Len(d)}

\* d[k], for a key the dict holds
Lookup(d, k) == d[CHOOSE i \in 1..Len(d) : d[i][1] = k][2]

\* dict.get(k, default)
Get(d, k, default) == IF k \in Keys(d) THEN Lookup(d, k) ELSE default

\* d[k] = v: an existing key keeps its place, a new key is appended
Assign(d, k, v) ==
    IF k \in Keys(d)
    THEN [i \in 1..Len(d) |-> IF d[i][1] = k THEN <<k, v>> ELSE d[i]]
    ELSE Append(d, <<k, v>>)

(* ----------------------- values of the inputs ------------------------- *)

VariantNames == <<"v1", "v2", "v3", "v4">>

\* an input the dispatcher never inspects: its field name and a variant
Opaque(f, i) == <<f, VariantNames[i]>>

RECURSIVE Concats(_, _)
\* the strings made of at most n pieces of P
Concats(P, n) ==
    IF n = 0 THEN {<<>>}
    ELSE LET prev == Concats(P, n - 1)
         IN prev \cup {s \o p : s \in prev, p \in P}

\* the dicts of at most MaxParams entries drawn from E, keys distinct
DictsFrom(E) ==
    UNION {{d \in [1..n -> E] :
               \A i, j \in 1..n : i # j => d[i][1] # d[j][1]} : n \in 0..MaxParams}

(* ------------------------- registry and models ------------------------ *)

\* runtime.model.model.EstimatorType
XGBOOST == "XGBOOST"
EstimatorType == {"TENSORFLOW", XGBOOST, "PAIML"}

\* "{}".format(tag): the string form of a type tag, one token of the message
Str(tag) == <<tag>>

FieldNames == {"class", "weight"}

\* the lists of field descriptors a feature column can hold
FieldDescLists ==
    {<<>>}
    \cup {<<[name |-> a]>> : a \in FieldNames}
    \cup {<<[name |-> p[1]], [name |-> p[2]]>> :
             p \in {q \in FieldNames \X FieldNames : q[1] # q[2]}}

FeatureColumns == {[kind |-> "FeatureColumn", field_desc |-> fd] : fd \in FieldDescLists}
NotFeatureColumn == [kind |-> "NotFeatureColumn", field_desc |-> <<>>]
NoneValue == [kind |-> "None", field_desc |-> <<>>]

LabelValues == FeatureColumns \cup {NotFeatureColumn}
SqlValues == {<<>>, S_select_stmt}

\* the metadata a model can be stored with: each key present or not
Metas ==
    {[label |-> l, original_sql |-> s] : l \in LabelValues, s \in SqlValues}
    \cup {[label |-> l] : l \in LabelValues}
    \cup {[original_sql |-> s] : s \in SqlValues}
    \cup {<<>>}

Models == {[type |-> t, meta |-> m] : t \in EstimatorType, m \in Metas}

NoModel == [type |-> "", meta |-> <<>>]

\* what a registry read gives: a model, or an error of the registry
RegistryResults(models) ==
    {[ok |-> TRUE, model |-> m] : m \in models} \cup {[ok |-> FALSE, model |-> NoModel]}

\* what a backend routine does when called: returns a value, or raises
BackendResults ==
    {[ok |-> TRUE, value |-> "None"], [ok |-> TRUE, value |-> "result"],
     [ok |-> FALSE, value |-> "BackendError"]}

NoRead == [ok |-> FALSE, model |-> NoModel]
NoBackend == [ok |-> TRUE, value |-> "None"]

\* Model.get_type()
get_type(model) == model.type

\* Model.get_meta(key): the stored value, None for a key not stored
get_meta(model, key) ==
    IF key \in DOMAIN model.meta THEN model.meta[key] ELSE NoneValue

(* ------------------------ results of a call --------------------------- *)

Event(fn, args) == [fn |-> fn, args |-> args]

Returns(v) == [kind |-> "return", exc |-> "", by |-> "", value |-> v, message |-> <<>>]

Raises(exc, by, msg) ==
    [kind |-> "raise", exc |-> exc, by |-> by, value |-> "", message |-> msg]

Result(t, o, out) == [trace |-> t, outcome |-> o, stdout |-> out]

\* the call of a backend routine: its result is returned, its error propagates
Propagate(backend) ==
    IF backend.ok THEN Returns(backend.value)
    ELSE Raises(backend.value, "backend", <<>>)

\* the call of a backend routine whose result is dropped
Discard(backend) ==
    IF backend.ok THEN Returns("None")
    ELSE Raises(backend.value, "backend", <<>>)

RegistryError == Raises("RegistryError", "registry", <<>>)

NotImplemented(model) ==
    Raises("NotImplementedError", "dispatcher", S_not_implemented \o Str(get_type(model)))

(* --------------------------- submit_local_train ----------------------- *)

TrainInputFields ==
    {"datasource", "original_sql", "select", "validation_select",
     "estimator_string", "model_image", "feature_column_map", "label_column",
     "model_params", "train_params", "validation_params", "save", "load", "user"}

\* the keyword parameters of the call of train_func
TrainParameters ==
    {"original_sql", "model_image", "estimator_string", "datasource", "select",
     "validation_select", "model_params", "train_params", "validation_params",
     "feature_column_map", "label_column", "save", "load"}

SelectsXGBoostCaseSensitive(estimator_string) ==
    StartsWith(estimator_string, S_xgboost)

\* estimator_string.lower().startswith("xgboost")
SelectsXGBoost(estimator_string) ==
    StartsWith(Lower(estimator_string), S_xgboost)

TrainKwargsSwapped(inp) ==
    [p \in TrainParameters |->
        IF p = "select" THEN inp["validation_select"]
        ELSE IF p = "validation_select" THEN inp["select"]
        ELSE inp[p]]

\* train_func(original_sql=original_sql, ..., load=load)
TrainKwargs(inp) == [p \in TrainParameters |-> inp[p]]

submit_local_train(inp, backend) ==
    LET train_func == IF SelectsXGBoost(inp["estimator_string"])
                      THEN "xgboost_train"
                      ELSE "tf_train"
    IN Result(<<Event(train_func, TrainKwargs(inp))>>, Propagate(backend), <<>>)

(* --------------------------- submit_local_pred ------------------------ *)

IsXGBoostModelNotTensorFlow(model) == get_type(model) # "TENSORFLOW"

IsXGBoostModelNever(model) == FALSE

\* model.get_type() == EstimatorType.XGBOOST
IsXGBoostModel(model) == get_type(model) = XGBOOST

submit_local_pred_late_check(inp, reg, backend) ==
    LET load == Event("Model.load_from_db", <<inp.datasource, inp.model_name>>)
        model == reg.model
        pred == Event("xgboost_pred",
                      <<inp.datasource, inp.select, inp.result_table,
                        inp.label_column, model>>)
    IN IF ~reg.ok THEN Result(<<load>>, RegistryError, <<>>)
       ELSE IF ~backend.ok THEN Result(<<load, pred>>, Discard(backend), <<>>)
       ELSE IF IsXGBoostModel(model) THEN Result(<<load, pred>>, Discard(backend), <<>>)
       ELSE Result(<<load, pred>>, NotImplemented(model), <<>>)

submit_local_pred(inp, reg, backend) ==
    LET load == Event("Model.load_from_db", <<inp.datasource, inp.model_name>>)
        model == reg.model
        pred == Event("xgboost_pred",
                      <<inp.datasource, inp.select, inp.result_table,
                        inp.label_column, model>>)
    IN IF ~reg.ok THEN Result(<<load>>, RegistryError, <<>>)
       ELSE IF IsXGBoostModel(model) THEN Result(<<load, pred>>, Discard(backend), <<>>)
       ELSE Result(<<load>>, NotImplemented(model), <<>>)

(* ------------------------- submit_local_evaluate ---------------------- *)

ValidationMetricsUnsplit(model_params) ==
    <<Get(model_params, S_validation_metrics, S_Accuracy)>>

\* model_params.get("validation.metrics", "Accuracy").split(",")
ValidationMetrics(model_params) ==
    Split(Get(model_params, S_validation_metrics, S_Accuracy))

\* isinstance(label_fc, FeatureColumn)
IsFeatureColumn(label_fc) == label_fc.kind = "FeatureColumn"

PredLabelNameLast(label_fc) == label_fc.field_desc[Len(label_fc.field_desc)].name

\* label_fc.get_field_desc()[0].name
PredLabelName(label_fc) == label_fc.field_desc[1].name

submit_local_evaluate(inp, reg, backend) ==
    LET load == Event("Model.load_from_db", <<inp.datasource, inp.model_name>>)
        model == reg.model
        validation_metrics == ValidationMetrics(inp.model_params)
        label_fc == get_meta(model, "label")
        evaluate == Event("xgboost_evaluate",
                          <<inp.datasource, inp.select, inp.result_table, model,
                            PredLabelName(label_fc), validation_metrics>>)
    IN IF ~reg.ok THEN Result(<<load>>, RegistryError, <<>>)
       ELSE IF ~IsFeatureColumn(label_fc)
       THEN Result(<<load>>, Raises("AssertionError", "dispatcher", <<>>), <<>>)
       ELSE IF Len(label_fc.field_desc) = 0
       THEN Result(<<load>>, Raises("IndexError", "dispatcher", <<>>), <<>>)
       ELSE IF IsXGBoostModel(model)
       THEN Result(<<load, evaluate>>, Discard(backend), <<>>)
       ELSE Result(<<load>>, NotImplemented(model), <<>>)

(* ------------------------- submit_local_explain ----------------------- *)

RECURSIVE SummaryParamsFrom(_, _, _)
\* the loop over model_params from entry i on, summary_params so far being acc
SummaryParamsFrom(model_params, i, acc) ==
    IF i > Len(model_params) THEN acc
    ELSE LET k == model_params[i][1]
         IN IF StartsWith(k, S_summary_dot)
            THEN SummaryParamsFrom(model_params, i + 1,
                     Assign(acc, Replace(k, S_summary_dot), Lookup(model_params, k)))
            ELSE SummaryParamsFrom(model_params, i + 1, acc)

\* summary_params after the loop
SummaryParams(model_params) == SummaryParamsFrom(model_params, 1, <<>>)

submit_local_explain(inp, reg, backend) ==
    LET load == Event("Model.load_from_db", <<inp.datasource, inp.model_name>>)
        model == reg.model
        summary_params == SummaryParams(inp.model_params)
        explain == Event("xgboost_explain",
                         <<inp.datasource, inp.select, inp.explainer, summary_params,
                           inp.result_table, model>>)
    IN IF ~reg.ok THEN Result(<<load>>, RegistryError, <<>>)
       ELSE IF IsXGBoostModel(model)
       THEN Result(<<load, explain>>, Discard(backend), <<>>)
       ELSE Result(<<load>>, NotImplemented(model), <<>>)

(* ------------------------ submit_local_show_train --------------------- *)

\* table_writer.ProtobufWriter(rows, header).dump_strings(): the head, then
\* one line a row
dump_strings(rows, header) ==
    <<[kind |-> "head", cells |-> header]>>
    \o [i \in 1..Len(rows) |-> [kind |-> "row", cells |-> rows[i]]]

MissingTrainSQLOnlyAbsent(meta) == "original_sql" \notin DOMAIN meta

\* original_sql = meta.get("original_sql"); not original_sql
MissingTrainSQL(meta) ==
    \/ "original_sql" \notin DOMAIN meta
    \/ meta["original_sql"] = <<>>

ShowTrainResultSetSwapped(model_name, original_sql) == <<<<original_sql, model_name>>>>

\* result_set = [(model_name, original_sql)]
ShowTrainResultSet(model_name, original_sql) == <<<<model_name, original_sql>>>>

\* header = ["Model", "Train Statement"]
ShowTrainHeader == <<S_Model, S_Train_Statement>>

submit_local_show_train(inp, reg) ==
    LET read == Event("read_metadata_from_db", <<inp.datasource, inp.model_name>>)
        meta == reg.model.meta
    IN IF ~reg.ok THEN Result(<<read>>, RegistryError, <<>>)
       ELSE IF MissingTrainSQL(meta)
       THEN Result(<<read>>, Raises("ValueError", "dispatcher", S_cannot_find), <<>>)
       ELSE LET result_set == ShowTrainResultSet(inp.model_name, meta["original_sql"])
                writer == Event("ProtobufWriter", <<result_set, ShowTrainHeader>>)
            IN Result(<<read, writer>>, Returns("None"),
                      dump_strings(result_set, ShowTrainHeader))

(* ------------------------- inputs of the calls ------------------------ *)

OpaqueTrainFields == TrainInputFields \ {"estimator_string"}

\* the inputs of a train call: estimator name es, field g in variant v
TrainInput(es, g, v) ==
    [f \in TrainInputFields |->
        IF f = "estimator_string" THEN es
        ELSE Opaque(f, IF f = g THEN v ELSE 1)]

ModelNames == {Opaque("model_name", i) : i \in 1..NumVariants}

PredInput(model_name, model_params) ==
    [datasource |-> Opaque("datasource", 1),
     original_sql |-> Opaque("original_sql", 1),
     select |-> Opaque("select", 1),
     model_name |-> model_name,
     label_column |-> Opaque("label_column", 1),
     model_params |-> model_params,
     result_table |-> Opaque("result_table", 1),
     user |-> Opaque("user", 1)]

EvaluateInput(model_name, model_params) ==
    [datasource |-> Opaque("datasource", 1),
     original_sql |-> Opaque("original_sql", 1),
     select |-> Opaque("select", 1),
     model_name |-> model_name,
     model_params |-> model_params,
     result_table |-> Opaque("result_table", 1),
     user |-> Opaque("user", 1)]

ExplainInput(model_name, model_params) ==
    [datasource |-> Opaque("datasource", 1),
     original_sql |-> Opaque("original_sql", 1),
     select |-> Opaque("select", 1),
     model_name |-> model_name,
     model_params |-> model_params,
     result_table |-> Opaque("result_table", 1),
     explainer |-> Opaque("explainer", 1),
     user |-> Opaque("user", 1)]

ShowTrainInput(model_name) ==
    [datasource |-> Opaque("datasource", 1), model_name |-> model_name]

S_xgBoost == <<"x", "g", "B", "o", "o", "s", "t">>
S_xgboos == <<"x", "g", "b", "o", "o", "s">>
S_my_ == <<"m", "y", "_">>
S_summ == <<"s", "u", "m", "m">>
S_ary_dot == <<"a", "r", "y", ".">>
S_Accuracy_F1 == S_Accuracy \o S_comma \o S_F1
S_summary_plot_type == S_summary_dot \o S_plot_type

Estimators == {S_xgboost, S_XGBoost, S_linear, <<>>}

EstimatorPieces ==
    {S_xgboost, S_XGBoost, S_xgBoost, S_xgboos, S_my_, S_linear, <<"1">>, <<"t">>}

ManyEstimators == Concats(EstimatorPieces, MaxEstimatorPieces)

Params ==
    DictsFrom({<<S_summary_plot_type, S_bar>>, <<S_other, S_x>>,
               <<S_validation_metrics, S_Accuracy_F1>>})

MetricValues == Concats({S_Accuracy, S_F1, S_comma}, MaxMetricPieces)

MetricParams ==
    DictsFrom({<<S_validation_metrics, v>> : v \in MetricValues}
              \cup {<<S_other, S_x>>})

SummaryKeys == Concats({S_summary_dot, S_summ, S_ary_dot, S_x}, MaxKeyPieces)

SummaryKeyParams == DictsFrom(SummaryKeys \X {S_bar, S_x})

\* one model of each type, stored with a label column and its train statement
TypicalModels ==
    {[type |-> t,
      meta |-> [label |-> [kind |-> "FeatureColumn",
                           field_desc |-> <<[name |-> "class"]>>],
                original_sql |-> S_select_stmt]] : t \in EstimatorType}

\* a backend routine whose result is dropped returns, or raises
DroppedResults == {b \in BackendResults : b.value # "result"}

(* --------------------------- the state machine ------------------------ *)

NoCall == [entry |-> "", inp |-> <<>>]
NoEnv == [reg |-> NoRead, backend |-> NoBackend]
NoOutcome == [kind |-> "none", exc |-> "", by |-> "", value |-> "", message |-> <<>>]
NoBookmark == [set |-> FALSE, model_name |-> <<>>, meta |-> <<>>, lines |-> <<>>]

\* no call is running; bookmark remembers one earlier show_train call
Init ==
    /\ pc = "idle"
    /\ call = NoCall
    /\ env = NoEnv
    /\ trace = <<>>
    /\ outcome = NoOutcome
    /\ stdout = <<>>
    /\ bookmark = NoBookmark

\* a call has run to its end with result r
Done(entry, inp, reg, backend, r) ==
    /\ pc' = "done"
    /\ call' = [entry |-> entry, inp |-> inp]
    /\ env' = [reg |-> reg, backend |-> backend]
    /\ trace' = r.trace
    /\ outcome' = r.outcome
    /\ stdout' = r.stdout

CallTrain(estimators) ==
    /\ pc = "idle"
    /\ \E es \in estimators, g \in OpaqueTrainFields, v \in 1..NumVariants,
          backend \in BackendResults :
          LET inp == TrainInput(es, g, v)
          IN Done("submit_local_train", inp, NoRead, backend,
                  submit_local_train(inp, backend))
    /\ UNCHANGED bookmark

CallPred(models) ==
    /\ pc = "idle"
    /\ \E reg \in RegistryResults(models), backend \in DroppedResults :
          LET inp == PredInput(Opaque("model_name", 1), <<>>)
          IN Done("submit_local_pred", inp, reg, backend,
                  submit_local_pred(inp, reg, backend))
    /\ UNCHANGED bookmark

CallEvaluate(models, params) ==
    /\ pc = "idle"
    /\ \E model_params \in params, reg \in RegistryResults(models),
          backend \in DroppedResults :
          LET inp == EvaluateInput(Opaque("model_name", 1), model_params)
          IN Done("submit_local_evaluate", inp, reg, backend,
                  submit_local_evaluate(inp, reg, backend))
    /\ UNCHANGED bookmark

CallExplain(models, params) ==
    /\ pc = "idle"
    /\ \E model_params \in params, reg \in RegistryResults(models),
          backend \in DroppedResults :
          LET inp == ExplainInput(Opaque("model_name", 1), model_params)
          IN Done("submit_local_explain", inp, reg, backend,
                  submit_local_explain(inp, reg, backend))
    /\ UNCHANGED bookmark

\* a show_train call that printed may be the one bookmark remembers from now on
CallShowTrain ==
    /\ pc = "idle"
    /\ \E model_name \in ModelNames, reg \in RegistryResults(Models),
          remember \in BOOLEAN :
          LET inp == ShowTrainInput(model_name)
              r == submit_local_show_train(inp, reg)
          IN /\ Done("submit_local_show_train", inp, reg, NoBackend, r)
             /\ bookmark' = IF remember /\ r.outcome.kind = "return"
                            THEN [set |-> TRUE, model_name |-> model_name,
                                  meta |-> reg.model.meta, lines |-> r.stdout]
                            ELSE bookmark

\* the call is over: nothing of it is kept by the dispatcher
Return ==
    /\ pc = "done"
    /\ pc' = "idle"
    /\ call' = NoCall
    /\ env' = NoEnv
    /\ trace' = <<>>
    /\ outcome' = NoOutcome
    /\ stdout' = <<>>
    /\ UNCHANGED bookmark

Next ==
    \/ CallTrain(Estimators)
    \/ CallPred(Models)
    \/ CallEvaluate(Models, Params)
    \/ CallExplain(Models, Params)
    \/ CallShowTrain
    \/ Return

Spec == Init /\ [][Next]_vars

\* train calls over many estimator names
NextTrain == CallTrain(ManyEstimators) \/ Return

SpecTrain == Init /\ [][NextTrain]_vars

\* evaluate calls over many validation.metrics values
NextEvaluate == CallEvaluate(TypicalModels, MetricParams) \/ Return

SpecEvaluate == Init /\ [][NextEvaluate]_vars

\* explain calls over many model_params keys
NextExplain == CallExplain(TypicalModels, SummaryKeyParams) \/ Return

SpecExplain == Init /\ [][NextExplain]_vars

(* ------------------------ vocabulary of the claims -------------------- *)

TrainRoutines == {"xgboost_train", "tf_train"}
BackendRoutines ==
    TrainRoutines \cup {"xgboost_pred", "xgboost_evaluate", "xgboost_explain"}
RegistryReads == {"Model.load_from_db", "read_metadata_from_db"}
ModelEntries == {"submit_local_pred", "submit_local_evaluate", "submit_local_explain"}

\* the places of trace where a routine of F is called
CallsOf(F) == {i \in 1..Len(trace) : trace[i].fn \in F}

Finished(entry) == pc = "done" /\ call.entry = entry

\* the call loaded a model from the registry
Loaded == env.reg.ok

\* needle occurs in hay
Contains(hay, needle) ==
    \E i \in 0..(Len(hay) - Len(needle)) :
        \A j \in 1..Len(needle) : hay[i + j] = needle[j]

RECURSIVE Join(_, _)
\* sep.join(parts)
Join(parts, sep) ==
    IF Len(parts) = 0 THEN <<>>
    ELSE IF Len(parts) = 1 THEN parts[1]
    ELSE parts[1] \o sep \o Join(Tail(parts), sep)

\* s without its first n characters
Drop(s, n) == SubSeq(s, n + 1, Len(s))

\* the letters an estimator name may start with to select xgboost
XGBoostLetters ==
    <<{"x", "X"}, {"g", "G"}, {"b", "B"}, {"o", "O"}, {"o", "O"}, {"s", "S"}, {"t", "T"}>>

NamesXGBoost(es) ==
    /\ Len(es) >= Len(XGBoostLetters)
    /\ \A i \in 1..Len(XGBoostLetters) : es[i] \in XGBoostLetters[i]

(* -------------------------------- C1 ---------------------------------- *)

\* C1: a train call calls exactly one train routine: xgboost_train if and only
\* if the lowercased estimator_string starts with "xgboost" ("XGBoost",
\* "xgBoost1"), and tf_train for every other string ("linear", "", "my_xgboost").
C1_TrainDispatch ==
    Finished("submit_local_train") =>
        LET es == call.inp["estimator_string"]
        IN /\ Cardinality(CallsOf(TrainRoutines)) = 1
           /\ Len(trace) = 1
           /\ trace[1].fn = "xgboost_train" <=> NamesXGBoost(es)
           /\ trace[1].fn = "tf_train" <=> ~NamesXGBoost(es)
           /\ es \in {S_XGBoost, S_xgBoost1} => trace[1].fn = "xgboost_train"
           /\ es \in {S_linear, <<>>, S_my_xgboost} => trace[1].fn = "tf_train"

C1_Witness ==
    /\ Finished("submit_local_train")
    /\ call.inp["estimator_string"] = S_xgBoost1
    /\ trace[1].fn = "xgboost_train"

(* -------------------------------- C2 ---------------------------------- *)

RaisedNotImplemented ==
    /\ outcome.kind = "raise"
    /\ outcome.exc = "NotImplementedError"
    /\ Contains(outcome.message, Str(env.reg.model.type))

\* C2 as stated: for a loaded model whose type is not XGBOOST, whatever its
\* metadata, pred, evaluate and explain each end by raising NotImplementedError
\* with the type tag in the message.
C2_Original ==
    (/\ pc = "done"
     /\ call.entry \in ModelEntries
     /\ Loaded
     /\ env.reg.model.type # XGBOOST) => RaisedNotImplemented

\* the label checks of evaluate, which come before the branch on the type
LabelPasses ==
    /\ "label" \in DOMAIN env.reg.model.meta
    /\ env.reg.model.meta["label"].kind = "FeatureColumn"
    /\ Len(env.reg.model.meta["label"].field_desc) > 0

\* C2 as amended: for a loaded model whose type is not XGBOOST, pred and
\* explain always end by raising NotImplementedError with the type tag in the
\* message; evaluate does so when the stored label is a FeatureColumn with at
\* least one field descriptor, and otherwise ends with the AssertionError or
\* IndexError of its label checks.
C2_UnsupportedType ==
    (/\ pc = "done"
     /\ call.entry \in ModelEntries
     /\ Loaded
     /\ env.reg.model.type # XGBOOST) =>
        IF call.entry = "submit_local_evaluate" /\ ~LabelPasses
        THEN /\ outcome.kind = "raise"
             /\ outcome.exc \in {"AssertionError", "IndexError"}
        ELSE RaisedNotImplemented

C2_Witness ==
    /\ Finished("submit_local_evaluate")
    /\ Loaded
    /\ env.reg.model.type = "PAIML"
    /\ LabelPasses
    /\ RaisedNotImplemented

(* -------------------------------- C3 ---------------------------------- *)

SummaryKeysOf(model_params) ==
    {k \in Keys(model_params) : StartsWith(k, S_summary_dot)}

\* C3: the summary_params passed to the explain routine has exactly one entry
\* for each model_params key that starts with "summary.": its key is the
\* original key without that leading prefix, its value the original value.
C3_SummaryParams ==
    (Finished("submit_local_explain") /\ CallsOf({"xgboost_explain"}) # {}) =>
        LET model_params == call.inp.model_params
            summary_params == trace[2].args[4]
            prefixed == SummaryKeysOf(model_params)
        IN /\ Len(summary_params) = Cardinality(prefixed)
           /\ Keys(summary_params) = {Drop(k, Len(S_summary_dot)) : k \in prefixed}
           /\ \A k \in prefixed :
                 Get(summary_params, Drop(k, Len(S_summary_dot)), <<"?">>)
                     = Lookup(model_params, k)

(* -------------------------------- C4 ---------------------------------- *)

\* C4: the metrics list handed to the evaluate routine is the value of
\* model_params["validation.metrics"] split on "," in order ("Accuracy,F1"
\* gives ["Accuracy", "F1"]), and ["Accuracy"] when the key is absent.
C4_ValidationMetrics ==
    (Finished("submit_local_evaluate") /\ CallsOf({"xgboost_evaluate"}) # {}) =>
        LET model_params == call.inp.model_params
            metrics == trace[2].args[6]
            present == S_validation_metrics \in Keys(model_params)
        IN /\ present =>
                /\ Join(metrics, S_comma) = Lookup(model_params, S_validation_metrics)
                /\ \A i \in 1..Len(metrics) : ~Contains(metrics[i], S_comma)
                /\ Len(metrics) >= 1
           /\ (present /\ Lookup(model_params, S_validation_metrics) = S_Accuracy_F1)
                => metrics = <<S_Accuracy, S_F1>>
           /\ ~present => metrics = <<S_Accuracy>>

C4_Witness ==
    /\ Finished("submit_local_evaluate")
    /\ CallsOf({"xgboost_evaluate"}) # {}
    /\ Get(call.inp.model_params, S_validation_metrics, <<>>) = S_Accuracy_F1
    /\ trace[2].args[6] = <<S_Accuracy, S_F1>>

(* -------------------------------- C5 ---------------------------------- *)

\* C5: show_train raises ValueError whenever the metadata read has no
\* "original_sql" key or an empty "original_sql"; then nothing is printed and
\* the result writer is never constructed.
C5_MissingTrainSQL ==
    (/\ Finished("submit_local_show_train")
     /\ Loaded
     /\ \/ "original_sql" \notin DOMAIN env.reg.model.meta
        \/ Len(env.reg.model.meta["original_sql"]) = 0) =>
        /\ outcome.kind = "raise"
        /\ outcome.exc = "ValueError"
        /\ stdout = <<>>
        /\ CallsOf({"ProtobufWriter"}) = {}

C5_Witness ==
    /\ Finished("submit_local_show_train")
    /\ Loaded
    /\ "original_sql" \in DOMAIN env.reg.model.meta
    /\ Len(env.reg.model.meta["original_sql"]) = 0
    /\ outcome.exc = "ValueError"

(* -------------------------------- C6 ---------------------------------- *)

HasTrainSQL ==
    /\ Loaded
    /\ "original_sql" \in DOMAIN env.reg.model.meta
    /\ Len(env.reg.model.meta["original_sql"]) > 0

\* C6: with a non-empty stored original_sql, show_train prints, in order, the
\* lines the result writer produces for the rows [(model_name, original_sql)]
\* under the header ["Model", "Train Statement"]; so it prints what an earlier
\* show_train call with the same model name and the same stored metadata
\* printed, whatever calls ran in between.
C6_ShowTrainOutput ==
    (Finished("submit_local_show_train") /\ HasTrainSQL) =>
        /\ outcome.kind = "return"
        /\ stdout = dump_strings(
               <<<<call.inp.model_name, env.reg.model.meta["original_sql"]>>>>,
               <<S_Model, S_Train_Statement>>)
        /\ (/\ bookmark.set
            /\ bookmark.model_name = call.inp.model_name
            /\ bookmark.meta = env.reg.model.meta) => stdout = bookmark.lines

C6_Witness ==
    /\ Finished("submit_local_show_train")
    /\ HasTrainSQL
    /\ bookmark.set
    /\ bookmark.model_name = call.inp.model_name
    /\ bookmark.meta = env.reg.model.meta
    /\ Len(stdout) = 2
    /\ stdout[2].cells = <<call.inp.model_name, S_select_stmt>>

(* -------------------------------- C7 ---------------------------------- *)

TrainResultIsRoutineResult ==
    IF env.backend.ok
    THEN outcome.kind = "return" /\ outcome.value = env.backend.value
    ELSE /\ outcome.kind = "raise"
         /\ outcome.exc = env.backend.value
         /\ outcome.by = "backend"

\* C7 as stated: train forwards every one of its input fields unchanged to the
\* train routine under the parameter of the same name, and its result is the
\* routine's result.
C7_Original ==
    Finished("submit_local_train") =>
        /\ \A f \in TrainInputFields :
              /\ f \in DOMAIN trace[1].args
              /\ trace[1].args[f] = call.inp[f]
        /\ TrainResultIsRoutineResult

\* C7 as amended: train forwards every one of its input fields except user
\* unchanged to the train routine under the parameter of the same name, passes
\* nothing else, and its result is the routine's result.
C7_TrainForwards ==
    Finished("submit_local_train") =>
        /\ DOMAIN trace[1].args = TrainInputFields \ {"user"}
        /\ \A f \in TrainInputFields \ {"user"} : trace[1].args[f] = call.inp[f]
        /\ TrainResultIsRoutineResult

C7_Witness ==
    /\ Finished("submit_local_train")
    /\ call.inp["select"] = Opaque("select", 2)
    /\ trace[1].args["select"] = Opaque("select", 2)
    /\ trace[1].args["validation_select"] = Opaque("validation_select", 1)
    /\ outcome.kind = "return"
    /\ outcome.value = "result"

(* -------------------------------- C8 ---------------------------------- *)

StoredLabelIsFeatureColumn ==
    /\ "label" \in DOMAIN env.reg.model.meta
    /\ env.reg.model.meta["label"].kind = "FeatureColumn"

\* C8: in evaluate, a stored label that is not a FeatureColumn ends the call
\* with AssertionError and no call of the evaluate routine; with a
\* FeatureColumn and an XGBOOST model, the label name passed to the evaluate
\* routine is the name of the first field descriptor of the label column.
C8_EvaluateLabel ==
    (Finished("submit_local_evaluate") /\ Loaded) =>
        /\ ~StoredLabelIsFeatureColumn =>
              /\ outcome.kind = "raise"
              /\ outcome.exc = "AssertionError"
              /\ CallsOf({"xgboost_evaluate"}) = {}
        /\ (StoredLabelIsFeatureColumn /\ env.reg.model.type = XGBOOST) =>
              IF Len(env.reg.model.meta["label"].field_desc) > 0
              THEN /\ CallsOf({"xgboost_evaluate"}) = {2}
                   /\ trace[2].args[5] = env.reg.model.meta["label"].field_desc[1].name
              ELSE CallsOf({"xgboost_evaluate"}) = {}

C8_Witness ==
    /\ Finished("submit_local_evaluate")
    /\ Loaded
    /\ env.reg.model.type = XGBOOST
    /\ StoredLabelIsFeatureColumn
    /\ env.reg.model.meta["label"].field_desc = <<[name |-> "class"], [name |-> "weight"]>>
    /\ trace[2].fn = "xgboost_evaluate"
    /\ trace[2].args[5] = "class"

(* -------------------------------- C9 ---------------------------------- *)

\* the backend routine of an entry point that loads a model
RoutineOf(entry) ==
    CASE entry = "submit_local_pred" -> "xgboost_pred"
      [] entry = "submit_local_evaluate" -> "xgboost_evaluate"
      [] entry = "submit_local_explain" -> "xgboost_explain"

\* the place of the model among the arguments of that routine
ModelArgOf(entry) ==
    CASE entry = "submit_local_pred" -> 5
      [] entry = "submit_local_evaluate" -> 4
      [] entry = "submit_local_explain" -> 6

\* C9: a call makes at most one registry read and at most one backend call; in
\* pred, evaluate and explain the load comes before the backend call; for an
\* XGBOOST model whose inputs pass the dispatcher's checks exactly one backend
\* call is made, to the routine of the entry point, with the loaded model.
C9_OneReadOneCall ==
    pc = "done" =>
        /\ Cardinality(CallsOf(RegistryReads)) <= 1
        /\ Cardinality(CallsOf(BackendRoutines)) <= 1
        /\ call.entry \in ModelEntries =>
              /\ CallsOf({"Model.load_from_db"}) = {1}
              /\ \A i \in CallsOf(BackendRoutines) : i > 1
              /\ (/\ Loaded
                  /\ env.reg.model.type = XGBOOST
                  /\ call.entry = "submit_local_evaluate" => LabelPasses) =>
                    /\ CallsOf(BackendRoutines) = {2}
                    /\ trace[2].fn = RoutineOf(call.entry)
                    /\ trace[2].args[ModelArgOf(call.entry)] = env.reg.model

C9_Witness ==
    /\ Finished("submit_local_explain")
    /\ Loaded
    /\ env.reg.model.type = XGBOOST
    /\ Len(trace) = 2
    /\ trace[1].fn = "Model.load_from_db"
    /\ trace[2].fn = "xgboost_explain"
    /\ trace[2].args[6] = env.reg.model

(* -------------------------------- C10 --------------------------------- *)

DispatcherError ==
    /\ outcome.kind = "raise"
    /\ outcome.by = "dispatcher"
    /\ outcome.exc \in {"NotImplementedError", "AssertionError"}

\* C10: when pred, evaluate or explain ends with an error the dispatcher
\* itself raised (NotImplementedError, or the label assertion of evaluate), no
\* backend routine was called in that call.
C10_NoBackendOnError ==
    (pc = "done" /\ call.entry \in ModelEntries /\ DispatcherError) =>
        CallsOf(BackendRoutines) = {}

C10_Witness ==
    /\ Finished("submit_local_pred")
    /\ Loaded
    /\ env.reg.model.type = "TENSORFLOW"
    /\ outcome.exc = "NotImplementedError"
    /\ CallsOf(BackendRoutines) = {}

====
